---- MODULE Spec2Model ----
(***************************************************************************)
(* A model of the GPML-to-graph translator of GraphSpace,                  *)
(* src/graphs/util/gpml_util_interface.py.                                 *)
(*                                                                         *)
(* parse_gpml(graph_gpml, title) is modelled as a state machine: one       *)
(* action per pipeline stage (parse_groups, parse_shapes, parse_datanodes, *)
(* parse_labels, parse_interactions) that executes one iteration of the    *)
(* stage's loop, or the stage's return to the driver together with the     *)
(* driver's test  'Error' in G , and one action for the tail of parse_gpml *)
(* (layout, metadata, title, conversion).                                  *)
(***************************************************************************)
EXTENDS Integers, Sequences, FiniteSets, TLC

VARIABLES
    doc,      \* the children of the parsed GPML root element, in document order
    root,    \* the attributes of the GPML root element
    title,    \* the title argument of parse_gpml
    pc,       \* the stage parse_gpml is in (or stopped in)
    i,        \* number of elements of the current stage's list already visited
    G,        \* the value bound to G: the graph, or an {"Error": ...} mapping
    pending,  \* parse_interactions: keys of `edges` the last loop has not visited
    ret       \* what parse_gpml returned (NoReturn while it is running)

vars == <<doc, root, title, pc, i, G, pending, ret>>

(***************************************************************************)
(* Bounds of the model.                                                    *)
(***************************************************************************)
MaxElems == 3        \* a document holds at most this many elements

(***************************************************************************)
(* Mappings (python dict, xml attrib): functions on a set of string keys.  *)
(***************************************************************************)
EmptyMap == <<>>

\* key in d
HasKey(d, k) == k \in DOMAIN d

\* d.update(e): the keys of e win
DictUpdate(d, e) ==
    [k \in (DOMAIN d) \cup (DOMAIN e) |-> IF k \in DOMAIN e THEN e[k] ELSE d[k]]

\* d[k] = v
DictPut(d, k, v) == DictUpdate(d, k :> v)

(***************************************************************************)
(* XML elements: a tag, an attribute mapping, a sequence of children.      *)
(***************************************************************************)
Element(tag, attrib, children) ==
    [tag |-> tag, attrib |-> attrib, children |-> children]

\* graph_gpml.findall(GPML + tag): the root's children with that tag, in order
FindAll(d, tag) == SelectSeq(d, LAMBDA e : e.tag = tag)

\* _extract_attributes, for one element: its own attributes overlaid by those
\* of each child in turn
RECURSIVE OverlayChildren(_, _)
OverlayChildren(acc, children) ==
    IF children = <<>> THEN acc
    ELSE OverlayChildren(DictUpdate(acc, Head(children).attrib), Tail(children))

ExtractOne(node) == OverlayChildren(DictUpdate(EmptyMap, node.attrib), node.children)

\* _extract_attributes(nodes)
ExtractAttributes(nodes) == [k \in 1..Len(nodes) |-> ExtractOne(nodes[k])]

(***************************************************************************)
(* The graph and the graphspace_interface calls made on it.  A graph is a  *)
(* mapping from node identity to the node's property mapping, and a set of *)
(* directed edges.                                                         *)
(***************************************************************************)
EmptyGraph == [nodes |-> EmptyMap, edges |-> {}]

IsGraph(g) == "nodes" \in DOMAIN g

\* k in G : node membership on a graph, key membership on a mapping
In(k, g) == IF IsGraph(g) THEN k \in DOMAIN g.nodes ELSE k \in DOMAIN g

\* {"Error": message}; a message is modelled by its text's kind and the value
\* spliced into it
ErrorValue(what, arg) == [Error |-> [what |-> what, arg |-> arg]]

\* interface.add_node(G, node_id, **properties)
add_node(g, node_id, properties) ==
    [g EXCEPT !.nodes =
        DictPut(@, node_id,
                DictUpdate(IF node_id \in DOMAIN @ THEN @[node_id] ELSE EmptyMap,
                           properties))]

\* interface.add_node_<property>(G, node_id, value)
add_node_property(g, node_id, key, value) ==
    [g EXCEPT !.nodes[node_id] = DictPut(@, key, value)]

\* interface.add_edge(G, source, target)
add_edge(g, source, target) == [g EXCEPT !.edges = @ \cup {<<source, target>>}]

\* interface.add_node_parent(G, node_id, parent)
add_node_parent(g, node_id, parent) == add_node_property(g, node_id, "parent", parent)

\* A property copied verbatim from the element when it has the attribute
CopyIfPresent(g, node, attr, key) ==
    IF HasKey(node, attr)
    THEN add_node_property(g, node["GraphId"], key, node[attr])
    ELSE g

\* '#' + colour, on the colour values the documents of the model use
Hash(colour) ==
    CASE colour = "FF0000" -> "#FF0000"
      [] colour = "0000FF" -> "#0000FF"
      [] colour = "white"  -> "#white"

(***************************************************************************)
(* update_node_graphics(G, node_id, node).  The graph is mutated in place  *)
(* and returned; without both coordinates an error mapping is returned and *)
(* the graph is left as it was.  The documents of the model carry no Align *)
(* and no Valign attribute.                                                *)
(***************************************************************************)
update_node_graphics(g, node_id, node) ==
    IF HasKey(node, "CenterX") /\ HasKey(node, "CenterY")
    THEN LET g1 == add_node_property(g, node["GraphId"], "x", node["CenterX"])
             g2 == add_node_property(g1, node["GraphId"], "y", node["CenterY"])
             g3 == CopyIfPresent(g2, node, "Height", "height")
             g4 == CopyIfPresent(g3, node, "Width", "width")
             g5 == CopyIfPresent(g4, node, "TextLabel", "label")
             g6 == CopyIfPresent(g5, node, "FontSize", "font_size")
             g7 == CopyIfPresent(g6, node, "LineThickness", "border_width")
             g8 == IF HasKey(node, "Color")
                   THEN add_node_property(g7, node["GraphId"], "border_color",
                                          Hash(node["Color"]))
                   ELSE g7
             g9 == IF HasKey(node, "FillColor")
                   THEN add_node_property(g8, node["GraphId"], "color",
                                          Hash(node["FillColor"]))
                   ELSE add_node_property(g8, node["GraphId"], "color", "white")
         IN  add_node_property(g9, node["GraphId"], "background_opacity", "0")
    ELSE ErrorValue("MissingCoordinates", node["GraphId"])

(***************************************************************************)
(* One iteration of a stage's loop either goes on to the next element with *)
(* the graph it has built, or makes the stage return a value, or raises.   *)
(***************************************************************************)
Continue(g) == [ctl |-> "continue", value |-> g]
Return(v)   == [ctl |-> "return", value |-> v]
Raise(exc)  == [ctl |-> "raise", value |-> [exception |-> exc]]

\* GroupsIteration with the node added under the GroupId
GroupsIteration_KeyedByGroupId(g, group) ==
    IF ~HasKey(group.attrib, "GraphId")
    THEN Return(ErrorValue("MissingGraphId", "group"))
    ELSE IF ~HasKey(group.attrib, "GroupId")
    THEN Raise("KeyError")
    ELSE LET id == group.attrib["GroupId"]
             g1 == add_node(g, id, EmptyMap)
             g2 == add_node_property(g1, id, "group_id", group.attrib["GroupId"])
             g3 == add_node_property(g2, id, "color", "white")
         IN  Continue(add_node_property(g3, id, "border_color", "black"))

\* parse_groups, the body of  for group in groups
GroupsIteration(g, group) ==
    IF ~HasKey(group.attrib, "GraphId")
    THEN Return(ErrorValue("MissingGraphId", "group"))
    ELSE IF ~HasKey(group.attrib, "GroupId")
    THEN Raise("KeyError")
    ELSE LET id == group.attrib["GraphId"]
             g1 == add_node(g, id, EmptyMap)
             g2 == add_node_property(g1, id, "group_id", group.attrib["GroupId"])
             g3 == add_node_property(g2, id, "color", "white")
         IN  Continue(add_node_property(g3, id, "border_color", "black"))

\* str.lower(), on the ShapeType values the documents of the model use
Lower(s) ==
    CASE s = "Oval"               -> "oval"
      [] s = "OVAL"               -> "oval"
      [] s = "Brace"              -> "brace"
      [] s = "Arc"                -> "arc"
      [] s = "RoundedRectangle"   -> "roundedrectangle"
      [] s = "Mitochondria"       -> "mitochondria"
      [] s = "Mim-Degradation"    -> "mim-degradation"
      [] s = "None"               -> "none"
      [] s = "Mim-Phosphorylated" -> "mim-phosphorylated"
      [] s = "Hexagon"            -> "hexagon"
      [] s = "Triangle"           -> "triangle"
      [] OTHER                    -> s

\* ShapeTypeOf without the call of lower()
ShapeTypeOf_CaseSensitive(g, node) ==
    IF HasKey(node, "ShapeType")
    THEN LET shape_type == node["ShapeType"]
         IN  IF shape_type = "brace" \/ shape_type = "arc"
             THEN Continue(add_node_property(g, node["GraphId"], "shape", "rectangle"))
             ELSE IF shape_type = "oval"
             THEN Continue(add_node_property(g, node["GraphId"], "shape", "ellipse"))
             ELSE IF shape_type = "roundedrectangle"
             THEN Continue(add_node_property(g, node["GraphId"], "shape", "roundrectangle"))
             ELSE IF shape_type = "mitochondria"
             THEN Continue(add_node_property(g, node["GraphId"], "shape", "ellipse"))
             ELSE IF shape_type \in {"mim-degradation", "none", "mim-phosphorylated"}
             THEN Return(ErrorValue("UnsupportedShape", shape_type))
             ELSE Continue(add_node_property(g, node["GraphId"], "shape", shape_type))
    ELSE Continue(add_node_property(g, node["GraphId"], "shape", "rectangle"))

\* parse_shapes, the ShapeType part of the loop body
ShapeTypeOf(g, node) ==
    IF HasKey(node, "ShapeType")
    THEN LET shape_type == Lower(node["ShapeType"])
         IN  IF shape_type = "brace" \/ shape_type = "arc"
             THEN Continue(add_node_property(g, node["GraphId"], "shape", "rectangle"))
             ELSE IF shape_type = "oval"
             THEN Continue(add_node_property(g, node["GraphId"], "shape", "ellipse"))
             ELSE IF shape_type = "roundedrectangle"
             THEN Continue(add_node_property(g, node["GraphId"], "shape", "roundrectangle"))
             ELSE IF shape_type = "mitochondria"
             THEN Continue(add_node_property(g, node["GraphId"], "shape", "ellipse"))
             ELSE IF shape_type \in {"mim-degradation", "none", "mim-phosphorylated"}
             THEN Return(ErrorValue("UnsupportedShape", shape_type))
             ELSE Continue(add_node_property(g, node["GraphId"], "shape", shape_type))
    ELSE Continue(add_node_property(g, node["GraphId"], "shape", "rectangle"))

\* parse_shapes, the body of  for node in shape_attributes
ShapesIteration(g, node) ==
    IF ~HasKey(node, "GraphId")
    THEN Return(ErrorValue("MissingGraphId", "shape"))
    ELSE LET g1 == add_node(g, node["GraphId"], EmptyMap)
             g2 == update_node_graphics(g1, node["GraphId"], node)
         IN  IF In("Error", g2)
             THEN Return(g2)
             ELSE LET r == ShapeTypeOf(g2, node)
                  IN  IF r.ctl = "continue"
                         /\ HasKey(node, "key")
                         /\ node["key"] = "org.pathvisio.DoubleLineProperty"
                      THEN Continue(add_node_property(r.value, node["GraphId"],
                                                      "border_style", "double"))
                      ELSE r

\* GroupMatches without the comparison of group_id with the GroupRef
GroupMatches_AnyGroup(g, node) ==
    IF HasKey(node, "GroupRef")
    THEN {n \in DOMAIN g.nodes : HasKey(g.nodes[n], "group_id")}
    ELSE {}

\* parse_datanodes: the nodes whose group_id equals the DataNode's GroupRef
GroupMatches(g, node) ==
    IF HasKey(node, "GroupRef")
    THEN {n \in DOMAIN g.nodes :
            /\ HasKey(g.nodes[n], "group_id")
            /\ g.nodes[n]["group_id"] = node["GroupRef"]}
    ELSE {}

\* DataNodesIteration without the override of color and background opacity
DataNodesIteration_KeepFill(g, node, last) ==
    IF ~HasKey(node, "GraphId")
    THEN Return(ErrorValue("MissingGraphId", "datanode"))
    ELSE LET g1 == add_node(g, node["GraphId"],
                            ("shape" :> "rectangle") @@ ("border_width" :> "2"))
             g2 == update_node_graphics(g1, node["GraphId"], node)
         IN  IF In("Error", g2)
             THEN Return(g2)
             ELSE IF last \in GroupMatches(g2, node)
             THEN Continue(add_node_parent(g2, node["GraphId"], last))
             ELSE Continue(g2)

\* parse_datanodes, the body of  for node in node_attributes ; every matching
\* node is made the parent in turn, and `last` is the one the scan meets last
DataNodesIteration(g, node, last) ==
    IF ~HasKey(node, "GraphId")
    THEN Return(ErrorValue("MissingGraphId", "datanode"))
    ELSE LET g1 == add_node(g, node["GraphId"],
                            ("shape" :> "rectangle") @@ ("border_width" :> "2"))
             g2 == update_node_graphics(g1, node["GraphId"], node)
         IN  IF In("Error", g2)
             THEN Return(g2)
             ELSE LET g3 == add_node_property(g2, node["GraphId"], "color", "white")
                      g4 == add_node_property(g3, node["GraphId"],
                                              "background_opacity", "0")
                  IN  IF last \in GroupMatches(g4, node)
                      THEN Continue(add_node_parent(g4, node["GraphId"], last))
                      ELSE Continue(g4)

\* parse_labels, the body of  for node in label_attributes ; the value that
\* update_node_graphics returns is dropped, G stays bound to the graph
LabelsIteration(g, node) ==
    IF ~HasKey(node, "GraphId")
    THEN Return(ErrorValue("MissingGraphId", "lable"))
    ELSE LET g1 == add_node(g, node["GraphId"], "border_color" :> "#FFFFFF")
             r  == update_node_graphics(g1, node["GraphId"], node)
             g2 == IF IsGraph(r) THEN r ELSE g1
         IN  IF In("Error", g2) THEN Return(g2) ELSE Continue(g2)

(***************************************************************************)
(* parse_interactions.                                                     *)
(***************************************************************************)
RECURSIVE PointsOf(_)
\* list_of_points: the attributes of the children of each nested layer
PointsOf(layers) ==
    IF layers = <<>> THEN <<>>
    ELSE [k \in 1..Len(Head(layers).children) |-> Head(layers).children[k].attrib]
         \o PointsOf(Tail(layers))

\* one entry of edge_attributes; 'points' is set only when there is a layer
EdgeAttributes(edge) ==
    [attrs      |-> ExtractOne(edge),
     has_points |-> edge.children # <<>>,
     points     |-> PointsOf(edge.children)]

RECURSIVE BuildEdges(_, _)
\* for edge in edge_attributes: edges[edge['GraphId']] = edge['points']
BuildEdges(edges, interactions) ==
    IF interactions = <<>> THEN Continue(edges)
    ELSE LET edge == EdgeAttributes(Head(interactions))
         IN  IF ~edge.has_points
             THEN Raise("KeyError")
             ELSE IF HasKey(edge.attrs, "GraphId")
             THEN BuildEdges(DictPut(edges, edge.attrs["GraphId"], edge.points),
                             Tail(interactions))
             ELSE Return(ErrorValue("MissingGraphId", "interaction"))

\* the edges dictionary of a document whose Interactions all have a GraphId
EdgesOf(d) == BuildEdges(EmptyMap, FindAll(d, "Interaction")).value

\* EdgesIteration with the two-point edge drawn from point 1 to point 0
EdgesIteration_Reversed(g, edge_id, edge) ==
    IF Len(edge) = 2
    THEN IF HasKey(edge[1], "GraphRef") /\ HasKey(edge[2], "GraphRef")
         THEN Continue(add_edge(g, edge[2]["GraphRef"], edge[1]["GraphRef"]))
         ELSE Return(ErrorValue("MissingGraphRef", edge_id))
    ELSE IF Len(edge) = 3
    THEN IF HasKey(edge[1], "GraphRef") /\ HasKey(edge[2], "GraphRef")
         THEN Continue(add_edge(g, edge[1]["GraphRef"], edge[2]["GraphRef"]))
         ELSE IF HasKey(edge[1], "GraphRef") /\ HasKey(edge[3], "GraphRef")
         THEN Continue(add_edge(g, edge[1]["GraphRef"], edge[3]["GraphRef"]))
         ELSE IF HasKey(edge[2], "GraphRef") /\ HasKey(edge[3], "GraphRef")
         THEN Continue(add_edge(g, edge[2]["GraphRef"], edge[3]["GraphRef"]))
         ELSE Return(ErrorValue("MissingGraphRef", edge_id))
    ELSE Continue(g)

\* EdgesIteration with the pair (0,2) tried before the pair (0,1)
EdgesIteration_EndsFirst(g, edge_id, edge) ==
    IF Len(edge) = 2
    THEN IF HasKey(edge[1], "GraphRef") /\ HasKey(edge[2], "GraphRef")
         THEN Continue(add_edge(g, edge[1]["GraphRef"], edge[2]["GraphRef"]))
         ELSE Return(ErrorValue("MissingGraphRef", edge_id))
    ELSE IF Len(edge) = 3
    THEN IF HasKey(edge[1], "GraphRef") /\ HasKey(edge[3], "GraphRef")
         THEN Continue(add_edge(g, edge[1]["GraphRef"], edge[3]["GraphRef"]))
         ELSE IF HasKey(edge[1], "GraphRef") /\ HasKey(edge[2], "GraphRef")
         THEN Continue(add_edge(g, edge[1]["GraphRef"], edge[2]["GraphRef"]))
         ELSE IF HasKey(edge[2], "GraphRef") /\ HasKey(edge[3], "GraphRef")
         THEN Continue(add_edge(g, edge[2]["GraphRef"], edge[3]["GraphRef"]))
         ELSE Return(ErrorValue("MissingGraphRef", edge_id))
    ELSE Continue(g)

\* the body of  for edge_id, edge in edges.items()
EdgesIteration(g, edge_id, edge) ==
    IF Len(edge) = 2
    THEN IF HasKey(edge[1], "GraphRef") /\ HasKey(edge[2], "GraphRef")
         THEN Continue(add_edge(g, edge[1]["GraphRef"], edge[2]["GraphRef"]))
         ELSE Return(ErrorValue("MissingGraphRef", edge_id))
    ELSE IF Len(edge) = 3
    THEN IF HasKey(edge[1], "GraphRef") /\ HasKey(edge[2], "GraphRef")
         THEN Continue(add_edge(g, edge[1]["GraphRef"], edge[2]["GraphRef"]))
         ELSE IF HasKey(edge[1], "GraphRef") /\ HasKey(edge[3], "GraphRef")
         THEN Continue(add_edge(g, edge[1]["GraphRef"], edge[3]["GraphRef"]))
         ELSE IF HasKey(edge[2], "GraphRef") /\ HasKey(edge[3], "GraphRef")
         THEN Continue(add_edge(g, edge[2]["GraphRef"], edge[3]["GraphRef"]))
         ELSE Return(ErrorValue("MissingGraphRef", edge_id))
    ELSE Continue(g)

(***************************************************************************)
(* set_gpml_layout and the tail of parse_gpml.                             *)
(***************************************************************************)
\* float(), on the coordinate values the documents of the model use
Float(s) ==
    CASE s = "10" -> 10
      [] s = "20" -> 20

\* set_gpml_layout(G): one entry per node that has both coordinates (the
\* order of the entries is the graph's node iteration order)
set_gpml_layout(g) ==
    {[id |-> n, x |-> Float(g.nodes[n]["x"]), y |-> Float(g.nodes[n]["y"])] :
        n \in {m \in DOMAIN g.nodes : HasKey(g.nodes[m], "x") /\ HasKey(g.nodes[m], "y")}}

\* x or y  on strings
Or(x, y) == IF x # "" THEN x ELSE y

\* interface.convertNXToDict(G, metadata=metadata)
convertNXToDict(g, metadata) ==
    [metadata |-> metadata, nodes |-> g.nodes, edges |-> g.edges]

(***************************************************************************)
(* parse_gpml.                                                             *)
(***************************************************************************)
NoReturn == [running |-> TRUE]

Running  == ret = NoReturn
Returned == "value" \in DOMAIN ret
Raised   == "exception" \in DOMAIN ret

\* DriverReceives without the test  'Error' in G : the next stage runs on
\* the graph built so far
DriverReceives_IgnoringErrors(v, next, visited) ==
    /\ G' = IF IsGraph(v) THEN v ELSE G
    /\ ret' = ret
    /\ pc' = next
    /\ i' = 0

\* G = parse_xxx(G, graph_gpml); if 'Error' in G: return G, "", ""
DriverReceives(v, next, visited) ==
    /\ G' = v
    /\ IF In("Error", v)
       THEN /\ ret' = [value |-> v, layout |-> "", title |-> ""]
            /\ pc' = pc
            /\ i' = visited
       ELSE /\ ret' = ret
            /\ pc' = next
            /\ i' = 0

\* what one iteration of a stage's loop does to parse_gpml
StageStep(r, next, visited) ==
    CASE r.ctl = "continue" -> /\ G' = r.value
                               /\ i' = visited
                               /\ UNCHANGED <<pc, ret>>
      [] r.ctl = "return"   -> DriverReceives(r.value, next, visited)
      [] r.ctl = "raise"    -> /\ ret' = r.value
                               /\ i' = visited
                               /\ UNCHANGED <<pc, G>>

parse_groups ==
    /\ pc = "groups" /\ Running
    /\ LET groups == FindAll(doc, "Group")
       IN  \/ /\ i < Len(groups)
              /\ StageStep(GroupsIteration(G, groups[i + 1]), "shapes", i + 1)
           \/ /\ i = Len(groups)
              /\ DriverReceives(G, "shapes", i)
    /\ UNCHANGED <<doc, root, title, pending>>

parse_shapes ==
    /\ pc = "shapes" /\ Running
    /\ LET shape_attributes == ExtractAttributes(FindAll(doc, "Shape"))
       IN  \/ /\ i < Len(shape_attributes)
              /\ StageStep(ShapesIteration(G, shape_attributes[i + 1]), "datanodes", i + 1)
           \/ /\ i = Len(shape_attributes)
              /\ DriverReceives(G, "datanodes", i)
    /\ UNCHANGED <<doc, root, title, pending>>

NoParent == "<no parent>"

\* for group in G.nodes_iter(data=True): the match the scan can meet last
LastMatch(g, node) ==
    IF GroupMatches(g, node) = {} THEN {NoParent} ELSE GroupMatches(g, node)

parse_datanodes ==
    /\ pc = "datanodes" /\ Running
    /\ LET node_attributes == ExtractAttributes(FindAll(doc, "DataNode"))
       IN  \/ /\ i < Len(node_attributes)
              /\ \E last \in LastMatch(G, node_attributes[i + 1]) :
                    StageStep(DataNodesIteration(G, node_attributes[i + 1], last),
                              "labels", i + 1)
           \/ /\ i = Len(node_attributes)
              /\ DriverReceives(G, "labels", i)
    /\ UNCHANGED <<doc, root, title, pending>>

parse_labels ==
    /\ pc = "labels" /\ Running
    /\ LET label_attributes == ExtractAttributes(FindAll(doc, "Label"))
       IN  \/ /\ i < Len(label_attributes)
              /\ StageStep(LabelsIteration(G, label_attributes[i + 1]), "interactions", i + 1)
           \/ /\ i = Len(label_attributes)
              /\ DriverReceives(G, "interactions", i)
    /\ UNCHANGED <<doc, root, title, pending>>

parse_interactions ==
    /\ pc = "interactions" /\ Running
    /\ \/ /\ i = 0
          /\ LET r == BuildEdges(EmptyMap, FindAll(doc, "Interaction"))
             IN  IF r.ctl = "continue"
                 THEN /\ pending' = DOMAIN r.value
                      /\ i' = 1
                      /\ UNCHANGED <<pc, G, ret>>
                 ELSE /\ StageStep(r, "finish", 0)
                      /\ UNCHANGED pending
       \/ /\ i = 1
          /\ \E edge_id \in pending :
                /\ pending' = pending \ {edge_id}
                /\ StageStep(EdgesIteration(G, edge_id, EdgesOf(doc)[edge_id]), "finish", 1)
       \/ /\ i = 1
          /\ pending = {}
          /\ DriverReceives(G, "finish", 1)
          /\ UNCHANGED pending
    /\ UNCHANGED <<doc, root, title>>

\* layout = set_gpml_layout(G) ... return parse_json, layout, title
finish ==
    /\ pc = "finish" /\ Running
    /\ IF HasKey(root, "Name")
       THEN LET metadata == [description |-> "",
                             title       |-> Or(root["Name"], "GPML"),
                             tags        |-> <<>>]
            IN  ret' = [value  |-> convertNXToDict(G, metadata),
                        layout |-> set_gpml_layout(G),
                        title  |-> Or(title, metadata.title)]
       ELSE ret' = [exception |-> "KeyError"]
    /\ UNCHANGED <<doc, root, title, pc, i, G, pending>>

Next ==
    \/ parse_groups
    \/ parse_shapes
    \/ parse_datanodes
    \/ parse_labels
    \/ parse_interactions
    \/ finish

(***************************************************************************)
(* The documents parse_gpml is run on.                                     *)
(***************************************************************************)
None == "<none>"

\* an attribute mapping with the attribute k, or without it when v is None
Attr(k, v) == IF v = None THEN EmptyMap ELSE k :> v

Graphics(attrib, children) == Element("Graphics", attrib, children)

GroupEl(id, group_id) ==
    Element("Group", Attr("GraphId", id) @@ Attr("GroupId", group_id), <<>>)

ShapeEl(id, x, y, shape_type, fill) ==
    Element("Shape", Attr("GraphId", id),
            <<Graphics(Attr("CenterX", x) @@ Attr("CenterY", y)
                       @@ Attr("ShapeType", shape_type) @@ Attr("FillColor", fill), <<>>)>>)

DataNodeEl(id, group_ref, x, y, fill) ==
    Element("DataNode", Attr("GraphId", id) @@ Attr("GroupRef", group_ref),
            <<Graphics(Attr("CenterX", x) @@ Attr("CenterY", y)
                       @@ Attr("FillColor", fill), <<>>)>>)

LabelEl(id, x, y, fill) ==
    Element("Label", Attr("GraphId", id),
            <<Graphics(Attr("CenterX", x) @@ Attr("CenterY", y)
                       @@ Attr("FillColor", fill), <<>>)>>)

InteractionEl(id, refs) ==
    Element("Interaction", Attr("GraphId", id),
            <<Graphics(EmptyMap,
                       [k \in 1..Len(refs) |-> Element("Point", Attr("GraphRef", refs[k]), <<>>)])>>)

\* The GraphId attribute for every element is unique, and so is the GroupId
\* of every Group
WellFormed(d) ==
    \A j, k \in 1..Len(d) :
        j # k =>
            /\ ~(/\ HasKey(d[j].attrib, "GraphId")
                 /\ HasKey(d[k].attrib, "GraphId")
                 /\ d[j].attrib["GraphId"] = d[k].attrib["GraphId"])
            /\ ~(/\ HasKey(d[j].attrib, "GroupId")
                 /\ HasKey(d[k].attrib, "GroupId")
                 /\ d[j].attrib["GroupId"] = d[k].attrib["GroupId"])

\* the well-formed documents of n elements of the menu
Documents(menu, n) == {d \in [1..n -> menu] : WellFormed(d)}

\* elements of every kind, sound and unsound
Menu ==
    {GroupEl("g1", "grp1"), GroupEl("g2", "grp2"), GroupEl(None, "grp1"),
     GroupEl("Error", "grp1"), GroupEl("g1", None)}
    \cup
    {ShapeEl("s1", "10", "20", None, None), ShapeEl("s1", None, "20", None, None),
     ShapeEl(None, "10", "20", None, None),
     ShapeEl("s1", "10", "20", "None", None), ShapeEl("s1", "10", "20", "Oval", "FF0000"),
     ShapeEl("Error", "10", "20", None, None)}
    \cup
    {DataNodeEl("d1", None, "10", "20", None), DataNodeEl("d1", "grp1", "10", "20", "0000FF"),
     DataNodeEl("d1", "grp2", "20", "10", None), DataNodeEl("d1", "grp1", "10", None, None),
     DataNodeEl(None, None, "10", "20", None)}
    \cup
    {LabelEl("l1", "10", "20", None), LabelEl("l1", None, "20", "FF0000"),
     LabelEl(None, "10", "20", None), LabelEl("Error", "20", "20", None)}
    \cup
    {InteractionEl("e1", <<"s1", "d1">>), InteractionEl(None, <<"s1", "d1">>),
     InteractionEl("e1", <<"s1", None>>), InteractionEl("e1", <<"s1", None, "d1">>)}

Roots  == {EmptyMap, "Name" :> "", "Name" :> "Apoptosis"}
Titles == {"", "My pathway"}

\* G = nx.DiGraph(directed=True)
InitWith(menu, roots, titles) ==
    /\ \E n \in 0..MaxElems : doc \in Documents(menu, n)
    /\ root \in roots
    /\ title \in titles
    /\ pc = "groups"
    /\ i = 0
    /\ G = EmptyGraph
    /\ pending = {}
    /\ ret = NoReturn

Init == InitWith(Menu, {"Name" :> "Apoptosis"}, {""})

Spec == Init /\ [][Next]_vars

\* Interactions of every pattern of endpoint references, and one sound
\* element of every other kind
RefChoices == {None, "s1", "d1"}

EdgeMenu ==
    {InteractionEl("e1", <<a, b>>) : a \in RefChoices, b \in RefChoices}
    \cup
    {InteractionEl("e1", <<a, b, c>>) : a \in RefChoices, b \in RefChoices, c \in RefChoices}
    \cup
    {InteractionEl("e1", <<"s1">>), InteractionEl("e1", <<"s1", "d1", "s1", "d1">>),
     InteractionEl("e2", <<"d1", "s1">>), InteractionEl("e2", <<None, "s1", "d1">>),
     InteractionEl(None, <<"s1", "d1">>)}
    \cup
    {GroupEl("g1", "grp1"), ShapeEl("s1", "10", "20", None, None),
     DataNodeEl("d1", "grp1", "10", "20", None), LabelEl("l1", "10", "20", None)}

InitEdges == InitWith(EdgeMenu, {"Name" :> "Apoptosis"}, {""})

SpecEdges == InitEdges /\ [][Next]_vars

\* Shapes of every ShapeType, and one sound element of every other kind
ShapeTypes ==
    {"Oval", "OVAL", "oval", "Brace", "brace", "Arc", "arc",
     "RoundedRectangle", "roundedrectangle", "Mitochondria", "mitochondria",
     "mim-degradation", "Mim-Degradation", "none", "None",
     "mim-phosphorylated", "Mim-Phosphorylated",
     "Hexagon", "hexagon", "Triangle", "rectangle", "ellipse"}

ShapeMenu ==
    {ShapeEl("s1", "10", "20", t, None) : t \in ShapeTypes \cup {None}}
    \cup
    {ShapeEl("s2", "20", "10", "Hexagon", "FF0000"), ShapeEl("s2", "20", "10", "Arc", None),
     ShapeEl("Error", "10", "20", "none", None), ShapeEl("Error", "10", "20", "Oval", None)}
    \cup
    {GroupEl("g1", "grp1"), DataNodeEl("d1", "grp1", "10", "20", None),
     LabelEl("l1", "10", "20", None), InteractionEl("e1", <<"s1", "d1">>)}

InitShapes == InitWith(ShapeMenu, {"Name" :> "Apoptosis"}, {""})

SpecShapes == InitShapes /\ [][Next]_vars

\* every root and every title argument, on documents of sound elements
TitleMenu ==
    {GroupEl("g1", "grp1"), ShapeEl("s1", "10", "20", None, None),
     DataNodeEl("d1", "grp1", "10", "20", None), LabelEl("l1", "10", "20", None),
     InteractionEl("e1", <<"s1", "d1">>), LabelEl(None, "10", "20", None)}

InitTitle == InitWith(TitleMenu, Roots, Titles)

SpecTitle == InitTitle /\ [][Next]_vars

(***************************************************************************)
(* Vocabulary of the properties.                                           *)
(***************************************************************************)
StageOf(tag) ==
    CASE tag = "Group"       -> "groups"
      [] tag = "Shape"       -> "shapes"
      [] tag = "DataNode"    -> "datanodes"
      [] tag = "Label"       -> "labels"
      [] tag = "Interaction" -> "interactions"

StageIndex(stage) ==
    CASE stage = "groups"       -> 1
      [] stage = "shapes"       -> 2
      [] stage = "datanodes"    -> 3
      [] stage = "labels"       -> 4
      [] stage = "interactions" -> 5
      [] stage = "finish"       -> 6

NodeTags == {"Group", "Shape", "DataNode", "Label"}
AllTags  == NodeTags \cup {"Interaction"}

\* the flattened attributes of the document's elements of one kind, in order
Elems(tag) == ExtractAttributes(FindAll(doc, tag))

HasCoordinates(node) == HasKey(node, "CenterX") /\ HasKey(node, "CenterY")

\* parse_gpml returned a graph document, a layout and a title
Succeeded == Returned /\ HasKey(ret.value, "metadata")

\* parse_gpml returned  error, "", ""
ReturnedError(e) ==
    /\ Returned
    /\ HasKey(ret.value, "Error")
    /\ ret.value = e
    /\ ret.layout = ""
    /\ ret.title = ""

ReturnedSomeError == Returned /\ HasKey(ret.value, "Error")

\* the element of kind `tag` the stage of that kind visited last
LastVisited(tag) == Elems(tag)[i]
HasVisited(tag)  == pc = StageOf(tag) /\ i \in 1..Len(Elems(tag))

(***************************************************************************)
(* C1.  A Shape, DataNode or Label element that has a GraphId and lacks    *)
(* CenterX or CenterY makes parse_gpml return the MissingCoordinates error *)
(* of that element, with empty layout and title, as soon as its stage      *)
(* visits it.                                                              *)
(***************************************************************************)
C1_MissingCoordinatesStopsParse ==
    \A tag \in {"Shape", "DataNode", "Label"} :
        (/\ HasVisited(tag)
         /\ HasKey(LastVisited(tag), "GraphId")
         /\ ~HasCoordinates(LastVisited(tag)))
        => ReturnedError(ErrorValue("MissingCoordinates", LastVisited(tag)["GraphId"]))

(***************************************************************************)
(* C2.  When parse_gpml returns a graph document, the node of every Shape, *)
(* Label, DataNode and Group element carries an x and a y.                 *)
(***************************************************************************)
C2_EveryNodeHasCoordinates ==
    Succeeded =>
        \A tag \in NodeTags : \A k \in 1..Len(Elems(tag)) :
            HasKey(Elems(tag)[k], "GraphId") =>
                LET n == Elems(tag)[k]["GraphId"]
                IN  /\ n \in DOMAIN ret.value.nodes
                    /\ HasKey(ret.value.nodes[n], "x")
                    /\ HasKey(ret.value.nodes[n], "y")

(***************************************************************************)
(* What each stage reports on a document, stated on the document alone.    *)
(***************************************************************************)
UnsupportedShapes == {"mim-degradation", "none", "mim-phosphorylated"}

\* the errors of one Group, Shape, DataNode or Label element (none: {})
ElementFaults(tag, node) ==
    IF ~HasKey(node, "GraphId")
    THEN {ErrorValue("MissingGraphId",
                     CASE tag = "Group" -> "group" [] tag = "Shape" -> "shape"
                       [] tag = "DataNode" -> "datanode" [] tag = "Label" -> "lable")}
    ELSE IF tag \in {"Shape", "DataNode"} /\ ~HasCoordinates(node)
    THEN {ErrorValue("MissingCoordinates", node["GraphId"])}
    ELSE IF tag = "Shape" /\ HasKey(node, "ShapeType")
            /\ Lower(node["ShapeType"]) \in UnsupportedShapes
    THEN {ErrorValue("UnsupportedShape", Lower(node["ShapeType"]))}
    ELSE {}

\* the number of points of an Interaction that carry a GraphRef
RefCount(points) == Cardinality({k \in 1..Len(points) : HasKey(points[k], "GraphRef")})

InteractionFaults ==
    LET edges == [k \in 1..Len(FindAll(doc, "Interaction")) |->
                     EdgeAttributes(FindAll(doc, "Interaction")[k])]
    IN  IF \E k \in 1..Len(edges) : ~HasKey(edges[k].attrs, "GraphId")
        THEN {ErrorValue("MissingGraphId", "interaction")}
        ELSE {ErrorValue("MissingGraphRef", edges[k].attrs["GraphId"]) :
                k \in {j \in 1..Len(edges) :
                         /\ Len(edges[j].points) \in {2, 3}
                         /\ RefCount(edges[j].points) < 2}}

\* the first element of a kind that has an error, 0 when none has
FirstFaulty(tag) ==
    LET bad == {k \in 1..Len(Elems(tag)) : ElementFaults(tag, Elems(tag)[k]) # {}}
    IN  IF bad = {} THEN 0 ELSE CHOOSE k \in bad : \A j \in bad : k <= j

StageFaults(tag) ==
    IF tag = "Interaction" THEN InteractionFaults
    ELSE IF FirstFaulty(tag) = 0 THEN {}
    ELSE ElementFaults(tag, Elems(tag)[FirstFaulty(tag)])

(***************************************************************************)
(* C3.  The stages run in the order Groups, Shapes, DataNodes, Labels,     *)
(* Interactions.  An error that parse_gpml returns comes with an empty     *)
(* layout and title, it is an error of the stage parse_gpml stopped in,    *)
(* and no stage before that one has an error to report on the document,    *)
(* wherever the elements stand in the document; a later stage has not run. *)
(* A document on which some stage has an error to report yields no graph   *)
(* document.                                                               *)
(***************************************************************************)
C3_EarliestStageErrorWins ==
    /\ ReturnedSomeError =>
          /\ ret.layout = "" /\ ret.title = ""
          /\ \E tag \in AllTags :
                /\ pc = StageOf(tag)
                /\ ret.value \in StageFaults(tag)
          /\ \A tag \in AllTags :
                StageIndex(StageOf(tag)) < StageIndex(pc) => StageFaults(tag) = {}
    /\ Succeeded => \A tag \in AllTags : StageFaults(tag) = {}
    /\ IsGraph(G) =>
          \A tag \in NodeTags : \A k \in 1..Len(Elems(tag)) :
             HasKey(Elems(tag)[k], "GraphId") =>
                /\ StageIndex(StageOf(tag)) < StageIndex(pc)
                      => Elems(tag)[k]["GraphId"] \in DOMAIN G.nodes
                /\ StageIndex(StageOf(tag)) > StageIndex(pc)
                      => Elems(tag)[k]["GraphId"] \notin DOMAIN G.nodes

\* Shapes and Labels both have an error to report, and the Shapes' one is returned
C3_Witness ==
    /\ ReturnedSomeError
    /\ pc = "shapes"
    /\ StageFaults("Label") # {}
    /\ StageFaults("Interaction") # {}
    /\ Len(doc) >= 2 /\ doc[1].tag # "Shape"

(***************************************************************************)
(* Interactions the last loop of parse_interactions has visited.           *)
(***************************************************************************)
VisitedEdges ==
    IF pc = "interactions" /\ i = 1 THEN DOMAIN EdgesOf(doc) \ pending
    ELSE IF pc = "finish" THEN DOMAIN EdgesOf(doc)
    ELSE {}

HasRef(point) == HasKey(point, "GraphRef")

(***************************************************************************)
(* C4.  An Interaction with a GraphId and exactly two points: when both    *)
(* points carry a GraphRef, visiting it puts the edge from point 0's       *)
(* reference to point 1's into the graph, and a successful parse of a      *)
(* document whose Interactions all have two points returns exactly these   *)
(* edges; when a point lacks its GraphRef, parse_gpml returns the          *)
(* MissingEndpointReference error that names the Interaction's GraphId.    *)
(***************************************************************************)
C4_TwoPointInteraction ==
    /\ \A id \in VisitedEdges :
          LET edge == EdgesOf(doc)[id]
          IN  Len(edge) = 2 =>
                 IF HasRef(edge[1]) /\ HasRef(edge[2])
                 THEN IsGraph(G) => <<edge[1]["GraphRef"], edge[2]["GraphRef"]>> \in G.edges
                 ELSE ReturnedError(ErrorValue("MissingGraphRef", id))
    /\ (Succeeded /\ \A id \in DOMAIN EdgesOf(doc) : Len(EdgesOf(doc)[id]) = 2) =>
          ret.value.edges =
             {<<EdgesOf(doc)[id][1]["GraphRef"], EdgesOf(doc)[id][2]["GraphRef"]>> :
                id \in DOMAIN EdgesOf(doc)}

\* a parse that succeeded on a document with one two-point Interaction d1 -> s1
C4_Witness ==
    /\ Succeeded
    /\ \E id \in DOMAIN EdgesOf(doc) :
          /\ Len(EdgesOf(doc)[id]) = 2
          /\ ret.value.edges = {<<"d1", "s1">>}
          /\ EdgesOf(doc)[id][1]["GraphRef"] = "d1"

(***************************************************************************)
(* C5.  An Interaction with exactly three points yields the edge between   *)
(* the first pair of points, among (0,1), (0,2), (1,2) in this order, that *)
(* both carry a GraphRef, from the lower point to the higher; when no pair *)
(* does, parse_gpml returns the MissingEndpointReference error naming the  *)
(* Interaction's GraphId.  With references on points 0 and 2 only, the     *)
(* edge is point 0 -> point 2.                                             *)
(***************************************************************************)
PairPriority == <<<<1, 2>>, <<1, 3>>, <<2, 3>>>>

UsablePairs(points) ==
    {k \in 1..Len(PairPriority) :
        HasRef(points[PairPriority[k][1]]) /\ HasRef(points[PairPriority[k][2]])}

PreferredEdge(points) ==
    LET k == CHOOSE k \in UsablePairs(points) : \A j \in UsablePairs(points) : k <= j
    IN  <<points[PairPriority[k][1]]["GraphRef"], points[PairPriority[k][2]]["GraphRef"]>>

C5_ThreePointInteraction ==
    /\ \A id \in VisitedEdges :
          LET edge == EdgesOf(doc)[id]
          IN  Len(edge) = 3 =>
                 IF UsablePairs(edge) # {}
                 THEN IsGraph(G) => PreferredEdge(edge) \in G.edges
                 ELSE ReturnedError(ErrorValue("MissingGraphRef", id))
    /\ (Succeeded /\ \A id \in DOMAIN EdgesOf(doc) : Len(EdgesOf(doc)[id]) = 3) =>
          ret.value.edges = {PreferredEdge(EdgesOf(doc)[id]) : id \in DOMAIN EdgesOf(doc)}

\* a parse that succeeded on a three-point Interaction with references on
\* points 0 and 2 only
C5_Witness ==
    /\ Succeeded
    /\ \E id \in DOMAIN EdgesOf(doc) :
          LET edge == EdgesOf(doc)[id]
          IN  /\ Len(edge) = 3
              /\ HasRef(edge[1]) /\ ~HasRef(edge[2]) /\ HasRef(edge[3])
              /\ ret.value.edges = {<<edge[1]["GraphRef"], edge[3]["GraphRef"]>>}
              /\ edge[1]["GraphRef"] # edge[3]["GraphRef"]

NodeGraphIds ==
    {Elems(tag)[k]["GraphId"] :
        <<tag, k>> \in {tk \in NodeTags \X (1..Len(doc)) :
                           /\ tk[2] <= Len(Elems(tk[1]))
                           /\ HasKey(Elems(tk[1])[tk[2]], "GraphId")}}

C8_TitleResolution ==
    (pc = "finish" /\ ~Running) =>
        /\ Succeeded
        /\ ret.title = IF title # "" THEN title
                       ELSE IF HasKey(root, "Name") /\ root["Name"] # "" THEN root["Name"]
                       ELSE "GPML"

(***************************************************************************)
(* C9.  The shape keyword of a Shape with GraphId and coordinates, by its  *)
(* ShapeType compared case-insensitively: brace, arc: rectangle; oval,     *)
(* mitochondria: ellipse; roundedrectangle: roundrectangle; no ShapeType:  *)
(* rectangle; mim-degradation, none, mim-phosphorylated: UnsupportedShape. *)
(***************************************************************************)
\* the keyword of a supported ShapeType, `other` being that of the rest
ShapeKeyword(node, other) ==
    IF ~HasKey(node, "ShapeType") THEN "rectangle"
    ELSE IF Lower(node["ShapeType"]) \in {"brace", "arc"} THEN "rectangle"
    ELSE IF Lower(node["ShapeType"]) \in {"oval", "mitochondria"} THEN "ellipse"
    ELSE IF Lower(node["ShapeType"]) = "roundedrectangle" THEN "roundrectangle"
    ELSE other

IsUnsupported(node) ==
    HasKey(node, "ShapeType") /\ Lower(node["ShapeType"]) \in UnsupportedShapes

\* C9 as claimed: any other ShapeType is the keyword as written in the document
C9_ShapeKeywordVerbatim ==
    /\ Succeeded =>
          \A k \in 1..Len(Elems("Shape")) :
             LET node == Elems("Shape")[k]
             IN  HasKey(node, "GraphId") =>
                    ret.value.nodes[node["GraphId"]]["shape"]
                       = ShapeKeyword(node, node["ShapeType"])
    /\ (/\ HasVisited("Shape")
        /\ HasKey(LastVisited("Shape"), "GraphId")
        /\ HasCoordinates(LastVisited("Shape"))
        /\ IsUnsupported(LastVisited("Shape")))
       => ReturnedError(ErrorValue("UnsupportedShape",
                                   Lower(LastVisited("Shape")["ShapeType"])))

\* C9 amended: any other ShapeType is the keyword in lower case; an
\* unsupported one stops the parse without a graph document, with the
\* UnsupportedShape error unless the Shape's own GraphId is "Error"
C9_ShapeKeywordLowercased ==
    /\ Succeeded =>
          \A k \in 1..Len(Elems("Shape")) :
             LET node == Elems("Shape")[k]
             IN  HasKey(node, "GraphId") =>
                    ret.value.nodes[node["GraphId"]]["shape"]
                       = ShapeKeyword(node, Lower(node["ShapeType"]))
    /\ (/\ HasVisited("Shape")
        /\ HasKey(LastVisited("Shape"), "GraphId")
        /\ HasCoordinates(LastVisited("Shape"))
        /\ IsUnsupported(LastVisited("Shape")))
       => /\ Returned /\ ~Succeeded
          /\ LastVisited("Shape")["GraphId"] # "Error"
                => ReturnedError(ErrorValue("UnsupportedShape",
                                            Lower(LastVisited("Shape")["ShapeType"])))

\* a graph document with a Shape written "Hexagon" and drawn "hexagon"
C9_Witness ==
    /\ Succeeded
    /\ \E k \in 1..Len(Elems("Shape")) :
          /\ HasKey(Elems("Shape")[k], "ShapeType")
          /\ Elems("Shape")[k]["ShapeType"] = "Hexagon"
          /\ ret.value.nodes[Elems("Shape")[k]["GraphId"]]["shape"] = "hexagon"

(***************************************************************************)
(* C10.  After a successful parse the node of every Shape and of every     *)
(* DataNode has fill color white and background opacity 0, whatever its    *)
(* FillColor.                                                              *)
(***************************************************************************)
C10_FillAlwaysWhite ==
    Succeeded =>
        \A tag \in {"Shape", "DataNode"} : \A k \in 1..Len(Elems(tag)) :
            LET node == Elems(tag)[k]
            IN  HasKey(node, "GraphId") =>
                   /\ ret.value.nodes[node["GraphId"]]["color"] = "white"
                   /\ ret.value.nodes[node["GraphId"]]["background_opacity"] = "0"

\* C10 amended: so it is for a DataNode; a Shape has background opacity 0
\* and keeps '#' + FillColor as its fill color, white when it has none
C10_FillWhiteForDataNodesOnly ==
    Succeeded =>
        \A tag \in {"Shape", "DataNode"} : \A k \in 1..Len(Elems(tag)) :
            LET node == Elems(tag)[k]
            IN  HasKey(node, "GraphId") =>
                   /\ ret.value.nodes[node["GraphId"]]["color"]
                         = IF tag = "Shape" /\ HasKey(node, "FillColor")
                           THEN Hash(node["FillColor"])
                           ELSE "white"
                   /\ ret.value.nodes[node["GraphId"]]["background_opacity"] = "0"

\* a graph document made from a Shape and a DataNode that both have a FillColor
C10_Witness ==
    /\ Succeeded
    /\ \E k \in 1..Len(Elems("Shape")) :
          /\ HasKey(Elems("Shape")[k], "FillColor")
          /\ ret.value.nodes[Elems("Shape")[k]["GraphId"]]["color"] = "#FF0000"
    /\ \E k \in 1..Len(Elems("DataNode")) :
          /\ HasKey(Elems("DataNode")[k], "FillColor")
          /\ ret.value.nodes[Elems("DataNode")[k]["GraphId"]]["color"] = "white"

(***************************************************************************)
(* C11.  parse_gpml takes the exit  return G, "", ""  only with an error   *)
(* that a stage reported: what it returns there is an {"Error": ...}       *)
(* mapping, and on a document none of whose stages has an error to report  *)
(* it returns a graph document, whatever strings the GraphIds are, the     *)
(* string "Error" included.                                                *)
(***************************************************************************)
C11_ErrorExitOnlyOnError ==
    /\ (Returned /\ ~Succeeded) => ReturnedSomeError
    /\ (Returned /\ \A tag \in AllTags : StageFaults(tag) = {}) => Succeeded

====
